---- MODULE Spec2Model ----
(***************************************************************************)
(* A model of pinoq: the on-disk container (superblock, aspect table, data *)
(* blocks) and the aspect-scoped encrypted filesystem on top of it.        *)
(*                                                                         *)
(* The volume is modelled at byte precision as a log of extents (the byte  *)
(* ranges that were written, latest last): what a read returns is decided  *)
(* by which bytes of a record are still the ones its writer put there.     *)
(* AES-256-CBC is modelled symbolically (ideal cipher): a ciphertext block *)
(* decrypts to its plaintext only under the key it was encrypted with and  *)
(* with the preceding ciphertext block intact; the IV is xor-ed onto the   *)
(* first plaintext block only; anything else decrypts to bytes that fail   *)
(* the padding check.                                                      *)
(***************************************************************************)
EXTENDS Integers, Sequences, FiniteSets, TLC

\* disk:  the volume file
\* nkeys: how many random keys were drawn so far
\* fs:    the mounted PinoqFs, or NoFs
\* resp:  the answer to the request in progress, or NoResp
\* made:  history: per aspect, the <<name, inode>> pairs of the creates in
\*        its root that answered ok
\* h:     history: the arguments of the mkfs that made the volume; in the
\*        seal/open, block codec and cipher harnesses, the harness's state
VARIABLES disk, nkeys, fs, resp, made, h

vars == <<disk, nkeys, fs, resp, made, h>>

(***************************************************************************)
(* Bounds of the model                                                     *)
(***************************************************************************)
MaxAspects == 2
MaxKeys == 12
\* the seal/open harness takes block maps of 1..MaxSealBits bits, and of
\* 8 and 9 bits (a whole byte, and one bit more)
MaxSealBits == 3
\* the codec harness takes block indexes 0..MaxBlockIndex
MaxBlockIndex == 3
\* the cipher harness takes plaintexts of 0..MaxPlainLen bytes
MaxPlainLen == 64
\* requests the bridge sends during one mount
MaxReqs == 2

\* block counts given to mkfs: small ones, 8 (a slot one byte longer than
\* its encoding) and 96 (a slot four bytes shorter than its encoding)
BlockCounts == {3, 6, 8, 96}

PW  == <<112, 119>>
BAD == <<98, 97, 100>>
Passwords == {PW, BAD}

(***************************************************************************)
(* Program constants                                                       *)
(***************************************************************************)
BLOCK_SIZE == 1024
MAGIC == 1347309393
IV_LEN == 16
KEY_LEN == 32
\* 0xFFFFFFFF, written as the signed value of that 32-bit pattern
NoBlock == -1
S_IFDIR == 16384
S_IFREG == 32768
\* std::mem::size_of::<SuperBlock>(): five u32
SuperBlockSize == 20
\* std::mem::size_of::<Block>(): a u32 and a Vec<u8> (pointer, capacity,
\* length) on a 64-bit target
BlockMemSize == 32
\* std::mem::size_of::<usize>()
UsizeSize == 8
\* the uid and gid mkfs reads from the process
Uid == 1000
Gid == 1000

(***************************************************************************)
(* Crypto primitives                                                       *)
(***************************************************************************)
Min(a, b) == IF a < b THEN a ELSE b
Max(a, b) == IF a > b THEN a ELSE b

\* IV::from_bytes: min(len, 16) bytes of the seed in a zeroed buffer
IVFromBytes(s) ==
  [i \in 1..IV_LEN |-> IF i <= Min(Len(s), IV_LEN) THEN s[i] ELSE 0]

\* n.to_be_bytes() of a u32
ToBeBytes(n) ==
  IF n = NoBlock THEN <<255, 255, 255, 255>>
  ELSE <<(n \div 16777216) % 256, (n \div 65536) % 256, (n \div 256) % 256, n % 256>>

\* a cipher that pads only up to the next block boundary
EncryptLenNoFullPad(n) == ((n + 15) \div 16) * 16

\* length of encrypt's output: whole 16-byte blocks, padding always added
EncryptLen(n) == ((n \div 16) + 1) * 16

\* xor of IVs onto the first plaintext block, kept as the set of IVs
\* xor-ed (an IV xor-ed twice cancels)
XorMask(mask, iv1, iv2) ==
  IF iv1 = iv2 THEN mask
  ELSE ((mask \cup {iv1, iv2}) \ (mask \cap {iv1, iv2}))

(***************************************************************************)
(* Block codec: encoded lengths (bincode, fixed-width integers, u64        *)
(* length prefixes)                                                        *)
(***************************************************************************)
RECURSIVE SumNameLen(_)
SumNameLen(S) ==
  IF S = {} THEN 0
  ELSE LET n == CHOOSE x \in S : TRUE
       IN 8 + Len(n) + 4 + SumNameLen(S \ {n})

INodeEncLen == 28
DirEncLen(entries) == 8 + SumNameLen(DOMAIN entries)
BlockEncLen(data) == 4 + 8 + data.len

RecLen(rec) ==
  CASE rec.t = "inode" -> INodeEncLen
    [] rec.t = "dir"   -> DirEncLen(rec.entries)
    [] rec.t = "block" -> BlockEncLen(rec.data)

\* Aspect::serialize: data_key || root_block (be) || block_map raw bytes
AspectSerializeLen(bits) == KEY_LEN + 4 + ((bits + 7) \div 8)

\* bincode of EncryptedAspect: key (32) || u64 length || ciphertext
EncryptedAspectEncLen(bits) == KEY_LEN + 8 + EncryptLen(AspectSerializeLen(bits))

\* bincode of EncryptedBlock: u64 length || ciphertext
EncryptedBlockEncLen(plen) == 8 + EncryptLen(plen)

(***************************************************************************)
(* Volume layout                                                           *)
(***************************************************************************)
EncryptedAspectSizeOf(n) == (n \div 8) + 88

\* (block 0xFFFFFFFF lies 128 GiB into the file: past the end of every
\* volume of the model, as is the stand-in used for it here)
GetBlockOffset(aspects, blocks, n) ==
  SuperBlockSize + EncryptedAspectSizeOf(blocks) * aspects
    + BlockMemSize * (IF n = NoBlock THEN 1000000 ELSE n)

GetAspectOffset(blocks, n) ==
  SuperBlockSize + EncryptedAspectSizeOf(blocks) * n

(***************************************************************************)
(* The volume: a file length and the log of extents written               *)
(***************************************************************************)
NoDisk == [exists |-> FALSE, len |-> 0, log |-> <<>>]

ExtEnd(e) == e.off + e.len

\* a write of `full` bytes at off through a cursor over a buffer of vlen
\* bytes: the bytes that fit are written
Extent(off, full, vlen, kind, body) ==
  [off |-> off, len |-> Max(0, Min(full, vlen - off)), full |-> full,
   kind |-> kind, body |-> body]

\* extents wholly overwritten by e are forgotten
PutExtent(log, e) ==
  IF e.len = 0 THEN log
  ELSE Append(SelectSeq(log, LAMBDA x : ~(e.off <= x.off /\ ExtEnd(x) <= ExtEnd(e))), e)

\* bytes [lo, hi) of extent i were written by it and by nothing after it
Intact(log, i, lo, hi) ==
  /\ log[i].off <= lo
  /\ hi <= ExtEnd(log[i])
  /\ \A j \in (i + 1)..Len(log) : log[j].off >= hi \/ ExtEnd(log[j]) <= lo

\* bytes [lo, hi) were never written: still the zeros of set_len
Untouched(log, lo, hi) ==
  \A j \in 1..Len(log) : log[j].off >= hi \/ ExtEnd(log[j]) <= lo

\* where an extent keeps the u64 length of its ciphertext
PrefixPos(e) == IF e.kind = "easp" THEN e.off + KEY_LEN ELSE e.off
CtPos(e) == PrefixPos(e) + 8
CtLen(e) == EncryptLen(e.body.plen)

\* the 16-byte ciphertext blocks of extent i that are no longer its own
BadCt(log, i) ==
  {b \in 1..(CtLen(log[i]) \div 16) :
     ~Intact(log, i, CtPos(log[i]) + 16 * (b - 1), CtPos(log[i]) + 16 * b)}

\* reading a u64 length at position q
VecAt(log, q) ==
  LET cands == {i \in 1..Len(log) :
                  /\ log[i].kind \in {"easp", "eblk"}
                  /\ PrefixPos(log[i]) = q
                  /\ Intact(log, i, q, q + 8)}
  IN IF cands # {} THEN [st |-> "len", i |-> CHOOSE i \in cands : TRUE]
     ELSE IF Untouched(log, q, q + 8) THEN [st |-> "zero", i |-> 0]
     ELSE [st |-> "garbage", i |-> 0]

(***************************************************************************)
(* Aspect engine                                                           *)
(***************************************************************************)
Key(id) == [id |-> id, mask |-> {}]

\* Aspect::new
AspectNew(blocks, keyId) ==
  [key |-> Key(keyId), root_block |-> NoBlock, map |-> {}, bits |-> blocks]

\* a test that takes every root_block, the sentinel too, for a root
HasRootBlockAlways(aspect) == aspect.root_block = aspect.root_block

HasRootBlock(aspect) == aspect.root_block # NoBlock

\* Aspect::serialize: the bit vector leaves as whole bytes
AspectSerialize(aspect) ==
  [key |-> aspect.key, root_block |-> aspect.root_block, map |-> aspect.map,
   nbytes |-> (aspect.bits + 7) \div 8]

\* a seal that wraps every aspect under one and the same key
ToEncryptedAspectFixedKey(aspect, password, wrapId) ==
  [key |-> Key(0), iv |-> IVFromBytes(password),
   plain |-> AspectSerialize(aspect),
   plen |-> AspectSerializeLen(aspect.bits)]

\* Aspect::to_encrypted_aspect: a fresh wrap key, the password as IV
ToEncryptedAspect(aspect, password, wrapId) ==
  [key |-> Key(wrapId), iv |-> IVFromBytes(password),
   plain |-> AspectSerialize(aspect),
   plen |-> AspectSerializeLen(aspect.bits)]

\* Aspect::from_encrypted_aspect on an undamaged ciphertext ea, opened with
\* the wrap key stored beside it: never an error; a different IV changes
\* the first 16 bytes of data_key only; BitVec::from_slice takes every bit
\* of the decrypted bytes
FromEncryptedAspect(ea, password) ==
  [key |-> [id |-> ea.plain.key.id,
            mask |-> XorMask(ea.plain.key.mask, ea.iv, IVFromBytes(password))],
   root_block |-> ea.plain.root_block,
   map |-> ea.plain.map,
   bits |-> 8 * ea.plain.nbytes]

Fail(r, e) == [r |-> r, e |-> e, v |-> 0]
Ok(v) == [r |-> "ok", e |-> "", v |-> v]

\* decrypt_aspect: EncryptedAspect::deserialize_from at offset, then
\* from_encrypted_aspect
DecryptAspect(d, offset, password) ==
  LET v == VecAt(d.log, offset + KEY_LEN)
  IN IF offset + KEY_LEN + 8 > d.len THEN Fail("err", "Serialization")
     ELSE IF v.st = "garbage" THEN Fail("err", "Serialization")
     ELSE IF v.st = "zero" THEN Fail("panic", "decrypt")
     ELSE LET e == d.log[v.i]
          IN IF e.len < e.full THEN Fail("err", "Serialization")
             ELSE IF e.kind # "easp" \/ ~Intact(d.log, v.i, offset, offset + KEY_LEN)
               THEN Fail("panic", "decrypt")
             ELSE IF BadCt(d.log, v.i) # {} THEN Fail("panic", "decrypt")
             ELSE Ok(FromEncryptedAspect(e.body, password))

\* encrypt_aspect through a cursor over the memory map
EncryptAspect(d, offset, aspect, password, wrapId) ==
  LET full == EncryptedAspectEncLen(aspect.bits)
      e == Extent(offset, full, d.len, "easp", ToEncryptedAspect(aspect, password, wrapId))
  IN [disk |-> [d EXCEPT !.log = PutExtent(d.log, e)],
      r |-> IF offset + full <= d.len THEN "ok" ELSE "err"]

(***************************************************************************)
(* mkfs                                                                    *)
(***************************************************************************)
\* a superblock with the two counts in each other's place
SuperBlockNewSwapped(aspects, blocks, uid, gid) ==
  [magic |-> MAGIC, aspects |-> blocks, blocks |-> aspects, uid |-> uid, gid |-> gid]

SuperBlockNew(aspects, blocks, uid, gid) ==
  [magic |-> MAGIC, aspects |-> aspects, blocks |-> blocks, uid |-> uid, gid |-> gid]

\* the aspects are written one after the other into the file, each as long
\* as its encoding
RECURSIVE MkfsAspects(_, _, _, _, _, _)
MkfsAspects(log, i, aspects, blocks, pass, k0) ==
  IF i = aspects THEN log
  ELSE LET full == EncryptedAspectEncLen(blocks)
           off == SuperBlockSize + i * full
           e == [off |-> off, len |-> full, full |-> full, kind |-> "easp",
                 body |-> ToEncryptedAspect(AspectNew(blocks, k0 + 2 * i + 1),
                                            pass, k0 + 2 * i + 2)]
       IN MkfsAspects(PutExtent(log, e), i + 1, aspects, blocks, pass, k0)

MkfsDisk(aspects, blocks, pass, k0) ==
  LET sb == [off |-> 0, len |-> SuperBlockSize, full |-> SuperBlockSize, kind |-> "sb",
             body |-> SuperBlockNew(aspects, blocks, Uid, Gid)]
      log == MkfsAspects(<<sb>>, 0, aspects, blocks, pass, k0)
  IN [exists |-> TRUE,
      len |-> Max(GetBlockOffset(aspects, blocks, blocks),
                  SuperBlockSize + aspects * EncryptedAspectEncLen(blocks)),
      log |-> log]

(***************************************************************************)
(* The mounted filesystem (PinoqFs)                                        *)
(***************************************************************************)
NoFs == [mounted |-> FALSE]

\* SuperBlock::deserialize_from at the start of the volume
ReadSuperBlock(d) ==
  IF \E i \in 1..Len(d.log) : d.log[i].kind = "sb" /\ Intact(d.log, i, 0, SuperBlockSize)
    THEN Ok(d.log[CHOOSE i \in 1..Len(d.log) : d.log[i].kind = "sb"].body)
    ELSE Fail("err", "Serialization")

\* get_aspect
GetAspect(d, blocks, n, pass) == DecryptAspect(d, GetAspectOffset(blocks, n), pass)

\* construct_block_map: a map of `blocks` bits, or-ed with every aspect's
\* map (the or runs over the positions both bit vectors have)
RECURSIVE ConstructBlockMap(_, _, _, _, _, _)
ConstructBlockMap(d, aspects, blocks, pass, i, acc) ==
  IF i = aspects THEN Ok(acc)
  ELSE LET a == GetAspect(d, blocks, i, pass)
       IN IF a.r # "ok" THEN a
          ELSE ConstructBlockMap(d, aspects, blocks, pass, i + 1,
                 acc \cup {b \in a.v.map : b < blocks /\ b < a.v.bits})

\* a search that passes over the lowest clear bit when there is another
FindSecondFreeBlock(f) ==
  LET free == {i \in 0..(f.B - 1) : i \notin f.block_map}
      lowest == CHOOSE i \in free : \A j \in free : i <= j
      rest == free \ {lowest}
  IN IF free = {} THEN NoBlock
     ELSE IF rest = {} THEN lowest
     ELSE CHOOSE i \in rest : \A j \in rest : i <= j

\* find_free_block
FindFreeBlock(f) ==
  IF \E i \in 0..(f.B - 1) : i \notin f.block_map
    THEN CHOOSE i \in 0..(f.B - 1) :
           i \notin f.block_map /\ \A j \in 0..(i - 1) : j \in f.block_map
    ELSE NoBlock

\* allocate_block that forgets to mark the block in the global map
AllocateBlockAspectOnly(m) ==
  LET index == FindFreeBlock(m.fs)
  IN IF index = NoBlock THEN [m |-> m, r |-> "err", e |-> "NoEnoughSpace", v |-> 0]
     ELSE [m |-> [m EXCEPT !.fs.aspect.map = @ \cup {index}],
           r |-> "ok", e |-> "", v |-> index]

\* allocate_block: the global map and the current aspect's map, in memory
AllocateBlock(m) ==
  LET index == FindFreeBlock(m.fs)
  IN IF index = NoBlock THEN [m |-> m, r |-> "err", e |-> "NoEnoughSpace", v |-> 0]
     ELSE [m |-> [m EXCEPT !.fs.block_map = @ \cup {index},
                           !.fs.aspect.map = @ \cup {index}],
           r |-> "ok", e |-> "", v |-> index]

\* to_encrypted_block
ToEncryptedBlock(rec, key, n) ==
  [key |-> key, iv |-> IVFromBytes(ToBeBytes(n)), plain |-> rec, plen |-> RecLen(rec)]

\* store_to_block: the overflow assertion, then the write through the cursor
StoreToBlock(m, rec, n) ==
  LET off == GetBlockOffset(m.fs.A, m.fs.B, n)
      eb == ToEncryptedBlock(rec, m.fs.aspect.key, n)
      full == EncryptedBlockEncLen(eb.plen)
      e == Extent(off, full, m.disk.len, "eblk", eb)
  IN IF EncryptLen(eb.plen) > BLOCK_SIZE - UsizeSize
       THEN [m |-> m, r |-> "panic", e |-> "block overflow", v |-> 0]
       ELSE [m |-> [m EXCEPT !.disk.log = PutExtent(@, e)],
             r |-> IF off + full <= m.disk.len THEN "ok" ELSE "err",
             e |-> IF off + full <= m.disk.len THEN "" ELSE "Serialization",
             v |-> 0]

\* store_aspect: the current aspect sealed under a fresh wrap key
StoreAspect(m, aspect, n) ==
  LET w == EncryptAspect(m.disk, GetAspectOffset(m.fs.B, n), aspect, m.fs.pass, m.nkeys + 1)
  IN [m |-> [m EXCEPT !.disk = w.disk, !.nkeys = @ + 1],
      r |-> w.r, e |-> IF w.r = "ok" THEN "" ELSE "Serialization", v |-> 0]

INodeNew(mode, uid, gid) ==
  [t |-> "inode", mode |-> mode, size |-> 0, block_size |-> 0, uid |-> uid,
   gid |-> gid, data_block |-> 0]

DirDefault == [t |-> "dir", entries |-> <<>>]

\* a mount that makes no root: the bootstrap left to a later step
InitRootSkipped(m) == [m |-> m, r |-> "ok", e |-> "", v |-> 0]

\* init_root
InitRoot(m) ==
  IF HasRootBlock(m.fs.aspect) THEN [m |-> m, r |-> "ok", e |-> "", v |-> 0]
  ELSE LET a1 == AllocateBlock(m) IN
       IF a1.r # "ok" THEN a1 ELSE
       LET a2 == AllocateBlock(a1.m) IN
       IF a2.r # "ok" THEN a2 ELSE
       LET m2 == [a2.m EXCEPT !.fs.aspect.root_block = a1.v]
           root_node == [INodeNew(S_IFDIR, m.fs.uid, m.fs.gid) EXCEPT
                           !.block_size = BLOCK_SIZE, !.data_block = a2.v]
           s1 == StoreToBlock(m2, root_node, a1.v)
       IN IF s1.r # "ok" THEN s1 ELSE
          LET s2 == StoreToBlock(s1.m, DirDefault, a2.v) IN
          IF s2.r # "ok" THEN s2 ELSE
          StoreAspect(s2.m, s2.m.fs.aspect, s2.m.fs.cur)

\* PinoqFs::new
PinoqFsNew(d, k, cur, pass) ==
  LET m0 == [disk |-> d, nkeys |-> k, fs |-> NoFs]
      sb == ReadSuperBlock(d)
  IN IF sb.r # "ok" THEN [m |-> m0, r |-> sb.r, e |-> sb.e, v |-> 0] ELSE
     LET a == DecryptAspect(d, GetAspectOffset(sb.v.blocks, cur), pass) IN
     IF a.r # "ok" THEN [m |-> m0, r |-> a.r, e |-> a.e, v |-> 0] ELSE
     LET bm == ConstructBlockMap(d, sb.v.aspects, sb.v.blocks, pass, 0, {}) IN
     IF bm.r # "ok" THEN [m |-> m0, r |-> bm.r, e |-> bm.e, v |-> 0] ELSE
     LET m1 == [disk |-> d, nkeys |-> k,
                fs |-> [mounted |-> TRUE, cur |-> cur, pass |-> pass,
                        A |-> sb.v.aspects, B |-> sb.v.blocks,
                        uid |-> sb.v.uid, gid |-> sb.v.gid,
                        aspect |-> a.v, block_map |-> bm.v, fds |-> <<>>, reqs |-> 0]]
         ir == InitRoot(m1)
     IN IF ir.r = "ok" THEN ir
        ELSE [m |-> [ir.m EXCEPT !.fs = NoFs], r |-> ir.r, e |-> ir.e, v |-> 0]

(***************************************************************************)
(* Block store: reading                                                    *)
(***************************************************************************)
\* the least number of bytes a record of the type decodes from
MinRecLen(type) ==
  CASE type = "inode" -> INodeEncLen
    [] type = "dir"   -> 8
    [] type = "block" -> 12

\* T::deserialize_from on the plaintext of a record
DecodeAs(type, plain) ==
  IF plain.t = type THEN Ok(plain)
  ELSE IF RecLen(plain) < MinRecLen(type) THEN Fail("err", "Serialization")
  ELSE Fail("err", "TypeConfusion")

\* byte-wise order of names (the order of BTreeMap<String, _>)
RECURSIVE LexLess(_, _)
LexLess(a, b) ==
  IF a = <<>> THEN b # <<>>
  ELSE IF b = <<>> THEN FALSE
  ELSE IF Head(a) # Head(b) THEN Head(a) < Head(b)
  ELSE LexLess(Tail(a), Tail(b))

RECURSIVE SortedNames(_)
SortedNames(S) ==
  IF S = {} THEN <<>>
  ELSE LET first == CHOOSE x \in S : \A y \in S \ {x} : LexLess(x, y)
       IN <<first>> \o SortedNames(S \ {first})

\* a u32 (kept as the signed value of its 32 bits) as little-endian bytes,
\* the way bincode lays it out, and back
ToLeBytes(v) ==
  <<v % 256, (v \div 256) % 256, (v \div 65536) % 256, (v \div 16777216) % 256>>
FromLeBytes(b) ==
  b[1] + 256 * b[2] + 65536 * b[3] + 16777216 * (IF b[4] < 128 THEN b[4] ELSE b[4] - 256)

RECURSIVE XorNat(_, _)
XorNat(a, b) ==
  IF a = 0 THEN b
  ELSE IF b = 0 THEN a
  ELSE ((a + b) % 2) + 2 * XorNat(a \div 2, b \div 2)

\* the u32 in plaintext bytes 0..3 after CBC decryption with iv2 of what was
\* encrypted with iv1: the two IVs are xor-ed onto the first block
XorFirst4(v, iv1, iv2) ==
  FromLeBytes([i \in 1..4 |-> XorNat(XorNat(ToLeBytes(v)[i], iv1[i]), iv2[i])])

\* the first k entries of a directory, in the order of its keys
FirstEntries(entries, k) ==
  LET names == SubSeq(SortedNames(DOMAIN entries), 1, k)
  IN [x \in {names[i] : i \in 1..k} |-> entries[x]]

\* T::deserialize_from on a plaintext decrypted with another IV than it was
\* encrypted with. The IV of a block is its index in bytes 0..3, so the
\* bytes 0..3 of the record change and nothing else: the mode of an INode,
\* the next_block of a Block, the low half of the entry count of a Dir (a
\* larger count runs past the end of the buffer)
DecodeMasked(type, plain, iv1, iv2) ==
  IF plain.t # type THEN DecodeAs(type, plain)
  ELSE IF type = "inode" THEN Ok([plain EXCEPT !.mode = XorFirst4(@, iv1, iv2)])
  ELSE IF type = "block" THEN Ok([plain EXCEPT !.next_block = XorFirst4(@, iv1, iv2)])
  ELSE LET count == XorFirst4(Cardinality(DOMAIN plain.entries), iv1, iv2)
       IN IF count >= 0 /\ count <= Cardinality(DOMAIN plain.entries)
            THEN Ok([plain EXCEPT !.entries = FirstEntries(@, count)])
            ELSE Fail("err", "Serialization")

\* from_encrypted_block for the ciphertext eb, of which the 16-byte blocks
\* in bad were overwritten: a wrong key or a damaged tail fails the
\* padding check inside decrypt, which unwraps; a damaged first block
\* leaves a garbage header
FromEncryptedBlock(eb, bad, key, n, type) ==
  LET nblk == EncryptLen(eb.plen) \div 16
  IN IF key # eb.key THEN Fail("panic", "decrypt")
     ELSE IF bad \cap {nblk - 1, nblk} # {} THEN Fail("panic", "decrypt")
     ELSE IF 1 \in bad THEN Fail("err", "Serialization")
     ELSE IF IVFromBytes(ToBeBytes(n)) # eb.iv
       THEN IF bad # {} THEN Fail("err", "Serialization")
            ELSE DecodeMasked(type, eb.plain, eb.iv, IVFromBytes(ToBeBytes(n)))
     ELSE IF bad # {}
       THEN IF eb.plain.t = "block" /\ type = "block"
              THEN Ok([eb.plain EXCEPT !.data.dirty = TRUE])
              ELSE Fail("err", "Serialization")
     ELSE DecodeAs(type, eb.plain)

\* get_from_block
GetFromBlock(m, type, n) ==
  LET off == GetBlockOffset(m.fs.A, m.fs.B, n)
      v == VecAt(m.disk.log, off)
  IN IF off + 8 > m.disk.len THEN Fail("err", "Serialization")
     ELSE IF v.st = "garbage" THEN Fail("err", "Serialization")
     ELSE IF v.st = "zero" THEN Fail("panic", "decrypt")
     ELSE LET e == m.disk.log[v.i]
          IN IF e.len < e.full THEN Fail("err", "Serialization")
             ELSE IF e.kind # "eblk" THEN Fail("panic", "decrypt")
             ELSE FromEncryptedBlock(e.body, BadCt(m.disk.log, v.i), m.fs.aspect.key, n, type)

(***************************************************************************)
(* Filesystem semantics                                                    *)
(***************************************************************************)
With(m, res) == [m |-> m, r |-> res.r, e |-> res.e, v |-> res.v]

\* mode & S_IFDIR != 0
IsDir(inode) == inode.mode = NoBlock \/ (inode.mode \div S_IFDIR) % 2 = 1

\* INode::as_attr
AsAttr(inode, n) ==
  [ino |-> n, size |-> inode.size,
   kind |-> IF IsDir(inode) THEN "Directory" ELSE "RegularFile",
   uid |-> inode.uid, gid |-> inode.gid, blksize |-> inode.block_size]

\* convert_inode_index
ConvertInodeIndex(f, n) == IF n = 1 THEN f.aspect.root_block ELSE n

\* BTreeMap::insert
MapInsert(entries, name, n) ==
  [x \in (DOMAIN entries) \cup {name} |-> IF x = name THEN n ELSE entries[x]]

\* lookup_name
LookupName(m, inode, name) ==
  LET i == GetFromBlock(m, "inode", inode) IN
  IF i.r # "ok" THEN With(m, i) ELSE
  IF ~IsDir(i.v) THEN With(m, Fail("err", "NoDirectory")) ELSE
  LET d == GetFromBlock(m, "dir", i.v.data_block) IN
  IF d.r # "ok" THEN With(m, d) ELSE
  IF name \notin DOMAIN d.v.entries THEN With(m, Fail("err", "NoEntry")) ELSE
  LET c == GetFromBlock(m, "inode", d.v.entries[name]) IN
  IF c.r # "ok" THEN With(m, c)
  ELSE With(m, Ok(AsAttr(c.v, d.v.entries[name])))

\* create_entry
CreateEntry(m, inode, name) ==
  LET node == [INodeNew(S_IFREG, m.fs.uid, m.fs.gid) EXCEPT
                 !.block_size = BLOCK_SIZE, !.data_block = NoBlock]
      a == AllocateBlock(m)
  IN IF a.r # "ok" THEN a ELSE
     LET parent == GetFromBlock(a.m, "inode", inode) IN
     IF parent.r # "ok" THEN With(a.m, parent) ELSE
     LET dir == GetFromBlock(a.m, "dir", parent.v.data_block) IN
     IF dir.r # "ok" THEN With(a.m, dir) ELSE
     LET ndir == [dir.v EXCEPT !.entries = MapInsert(@, name, a.v)]
         s1 == StoreToBlock(a.m, parent.v, inode)
     IN IF s1.r # "ok" THEN s1 ELSE
        LET s2 == StoreToBlock(s1.m, ndir, parent.v.data_block) IN
        IF s2.r # "ok" THEN s2 ELSE
        LET s3 == StoreAspect(s2.m, s2.m.fs.aspect, s2.m.fs.cur) IN
        IF s3.r # "ok" THEN s3 ELSE
        LET s4 == StoreToBlock(s3.m, node, a.v) IN
        IF s4.r # "ok" THEN s4
        ELSE With(s4.m, Ok(AsAttr(node, a.v)))

\* the loop of list_entries: an entry whose inode fails to load is left out
RECURSIVE ListLoop(_, _, _, _)
ListLoop(m, entries, names, acc) ==
  IF names = <<>> THEN Ok(acc)
  ELSE LET i == entries[Head(names)]
           node == GetFromBlock(m, "inode", i)
       IN IF node.r = "panic" THEN node
          ELSE IF node.r = "ok"
            THEN ListLoop(m, entries, Tail(names),
                   Append(acc, [ino |-> i,
                                kind |-> IF IsDir(node.v) THEN "Directory" ELSE "RegularFile",
                                name |-> Head(names)]))
            ELSE ListLoop(m, entries, Tail(names), acc)

DotName == <<46>>
DotDotName == <<46, 46>>

\* list_entries
ListEntries(m, inode) ==
  LET parent == GetFromBlock(m, "inode", inode) IN
  IF parent.r # "ok" THEN parent ELSE
  LET d == GetFromBlock(m, "dir", parent.v.data_block) IN
  IF d.r # "ok" THEN d ELSE
  ListLoop(m, d.v.entries, SortedNames(DOMAIN d.v.entries),
           <<[ino |-> inode, kind |-> "Directory", name |-> DotName],
             [ino |-> 1, kind |-> "Directory", name |-> DotDotName]>>)

\* Filesystem::readdir: the entries after the first `offset`, each with its
\* 1-based position as cookie
ReaddirReply(entries, offset) ==
  [k \in 1..Max(0, Len(entries) - offset) |->
     [ino |-> entries[k + offset].ino, cookie |-> k + offset,
      kind |-> entries[k + offset].kind, name |-> entries[k + offset].name]]

RAW_BLK_SIZE == BLOCK_SIZE - 32

FdInsert(fds, fh, cursor) ==
  [x \in (DOMAIN fds) \cup {fh} |-> IF x = fh THEN cursor ELSE fds[x]]

\* Option<u32>::None of a cursor
NONE == -2

\* data.chunks(RAW_BLK_SIZE): the number of chunks, and the k-th (from 0)
NumChunks(data) == (data.len + RAW_BLK_SIZE - 1) \div RAW_BLK_SIZE
Chunk(data, k) ==
  [id |-> data.id, lo |-> data.lo + k * RAW_BLK_SIZE,
   len |-> Min(RAW_BLK_SIZE, data.len - k * RAW_BLK_SIZE), dirty |-> FALSE]

\* the loop of write over the chunks, from chunk k on, current being the
\* block allocated for chunk k
RECURSIVE WriteLoop(_, _, _, _, _)
WriteLoop(m, fh, data, k, current) ==
  IF k >= NumChunks(data) THEN [m |-> m, r |-> "ok", e |-> "", v |-> 0]
  ELSE IF k = NumChunks(data) - 1
    THEN LET m1 == [m EXCEPT !.fs.fds = FdInsert(@, fh, current)]
             s == StoreToBlock(m1, [t |-> "block", next_block |-> NoBlock,
                                    data |-> Chunk(data, k)], current)
         IN IF s.r # "ok" THEN s ELSE WriteLoop(s.m, fh, data, k + 1, NoBlock)
    ELSE LET a == AllocateBlock(m) IN
         IF a.r # "ok" THEN a ELSE
         LET s == StoreToBlock(a.m, [t |-> "block", next_block |-> a.v,
                                     data |-> Chunk(data, k)], current)
         IN IF s.r # "ok" THEN s ELSE WriteLoop(s.m, fh, data, k + 1, a.v)

\* PinoqFs::write
WriteData(m, ino, fh, data) ==
  LET a == AllocateBlock(m) IN
  IF a.r # "ok" THEN a ELSE
  LET m1 == IF fh \in DOMAIN a.m.fs.fds THEN a.m
            ELSE [a.m EXCEPT !.fs.fds = FdInsert(@, fh, NONE)]
      cursor == m1.fs.fds[fh]
      link == IF cursor # NONE
                THEN LET b == GetFromBlock(m1, "block", cursor)
                     IN IF b.r # "ok" THEN With(m1, b)
                        ELSE StoreToBlock(m1, [b.v EXCEPT !.next_block = a.v], cursor)
                ELSE LET inode == GetFromBlock(m1, "inode", ino)
                     IN IF inode.r # "ok" THEN With(m1, inode)
                        ELSE StoreToBlock(m1, [inode.v EXCEPT !.data_block = a.v], ino)
  IN IF link.r # "ok" THEN link ELSE
     LET w == WriteLoop(link.m, fh, data, 0, a.v) IN
     IF w.r # "ok" THEN w ELSE
     LET s == StoreAspect(w.m, w.m.fs.aspect, w.m.fs.cur) IN
     IF s.r # "ok" THEN s ELSE With(s.m, Ok(data.len))

\* PinoqFs::read: fd_manager.get(fh).unwrap()
ReadData(m, ino, fh) ==
  IF fh \notin DOMAIN m.fs.fds THEN With(m, Fail("panic", "unwrap")) ELSE
  LET cursor == m.fs.fds[fh]
      inode == GetFromBlock(m, "inode", ino)
  IN IF cursor = NONE /\ inode.r # "ok" THEN With(m, inode) ELSE
     LET next_block == IF cursor # NONE THEN cursor ELSE inode.v.data_block IN
     IF next_block = NoBlock THEN With(m, Ok([id |-> 0, lo |-> 0, len |-> 0, dirty |-> FALSE])) ELSE
     LET blk == GetFromBlock(m, "block", next_block) IN
     IF blk.r # "ok" THEN With(m, blk)
     ELSE With([m EXCEPT !.fs.fds = FdInsert(@, fh, blk.v.next_block)], Ok(blk.v.data))

\* PinoqError::to_code
ENOENT == 2
EIO == 5
ENOTDIR == 20
ENOSPC == 28
ToCode(e) ==
  CASE e = "NoEntry" -> ENOENT
    [] e = "NoDirectory" -> ENOTDIR
    [] e = "NoEnoughSpace" -> ENOSPC
    [] e = "IO" -> EIO
    [] OTHER -> -1

(***************************************************************************)
(* Actions                                                                 *)
(***************************************************************************)
\* what the last request was and how it ended: "ok" with its value, "err"
\* with the error kind and the errno replied, or "panic" (the process dies)
Response(op, args, res) ==
  [op |-> op, args |-> args, result |-> res.r, err |-> res.e, val |-> res.v,
   code |-> IF res.r # "err" THEN 0
            ELSE IF op \in {"getattr", "setattr"} THEN ENOENT
            ELSE ToCode(res.e)]

HIdle == [phase |-> "idle"]

\* history: the arguments of the mkfs that made the volume
HMade(aspects, blocks) == [phase |-> "made", aspects |-> aspects, blocks |-> blocks]

\* no request is being answered
NoResp == [op |-> "none"]
Idle == resp = NoResp

NoneMade == [a \in 0..MaxAspects |-> {}]

Init ==
  /\ disk = NoDisk
  /\ nkeys = 0
  /\ fs = NoFs
  /\ resp = NoResp
  /\ made = NoneMade
  /\ h = HIdle

\* the caller has taken the answer
Ack ==
  /\ ~Idle
  /\ resp' = NoResp
  /\ UNCHANGED <<disk, nkeys, fs, made, h>>

\* mkfs(aspects, blocks, path, pass): the file must not exist
Mkfs(aspects, blocks, pass) ==
  /\ Idle
  /\ ~disk.exists
  /\ nkeys + 2 * aspects <= MaxKeys
  /\ disk' = MkfsDisk(aspects, blocks, pass, nkeys)
  /\ nkeys' = nkeys + 2 * aspects
  /\ resp' = Response("mkfs", <<aspects, blocks, pass>>, Ok(0))
  /\ h' = HMade(aspects, blocks)
  /\ UNCHANGED <<fs, made>>

\* inspect(path): PinoqFs::inspect reads the superblock, and the caller
\* prints its magic, aspects and blocks
Inspect ==
  /\ Idle
  /\ disk.exists
  /\ resp' = Response("inspect", <<>>, ReadSuperBlock(disk))
  /\ UNCHANGED <<disk, nkeys, fs, made, h>>

\* mount(config): PinoqFs::new(config).unwrap(), then the bridge's loop
Mount(cur, pass) ==
  /\ Idle
  /\ disk.exists
  /\ ~fs.mounted
  /\ nkeys + 1 <= MaxKeys
  /\ LET n == PinoqFsNew(disk, nkeys, cur, pass)
     IN /\ disk' = n.m.disk
        /\ nkeys' = n.m.nkeys
        /\ fs' = n.m.fs
        /\ resp' = Response("mount", <<cur, pass>>, n)
  /\ UNCHANGED <<made, h>>

\* the bridge unmounts: the mount's memory is dropped
Unmount ==
  /\ Idle
  /\ fs.mounted
  /\ fs' = NoFs
  /\ UNCHANGED <<disk, nkeys, resp, made, h>>

Machine == [disk |-> disk, nkeys |-> nkeys, fs |-> fs]

\* the bridge sends one request at a time to a mounted filesystem
CanServe == Idle /\ fs.mounted /\ fs.reqs < MaxReqs

\* a request of the bridge handled by `res`: a panic ends the process, and
\* with it the mount
Handled(op, args, res) ==
  /\ disk' = res.m.disk
  /\ nkeys' = res.m.nkeys
  /\ fs' = IF res.r = "panic" THEN NoFs ELSE [res.m.fs EXCEPT !.reqs = @ + 1]
  /\ resp' = Response(op, args, res)
  /\ made' = IF op = "create" /\ res.r = "ok"
                  /\ ConvertInodeIndex(fs, args[1]) = fs.aspect.root_block
               THEN [made EXCEPT ![fs.cur] = @ \cup {<<args[2], res.v.ino>>}]
               ELSE made
  /\ UNCHANGED h


\* Filesystem::lookup
Lookup(parent, name) ==
  /\ CanServe
  /\ Handled("lookup", <<parent, name>>,
             LookupName(Machine, ConvertInodeIndex(fs, parent), name))

\* Filesystem::readdir
Readdir(inode, offset) ==
  /\ CanServe
  /\ LET l == ListEntries(Machine, ConvertInodeIndex(fs, inode))
     IN Handled("readdir", <<inode, offset>>,
                IF l.r = "ok" THEN With(Machine, Ok(ReaddirReply(l.v, offset)))
                ELSE With(Machine, l))

\* Filesystem::getattr and Filesystem::setattr: any error is replied as ENOENT
Getattr(op, ino) ==
  /\ CanServe
  /\ LET n == ConvertInodeIndex(fs, ino)
         g == GetFromBlock(Machine, "inode", n)
     IN Handled(op, <<ino>>, IF g.r = "ok" THEN With(Machine, Ok(AsAttr(g.v, n)))
                             ELSE With(Machine, g))

\* Filesystem::create
Create(parent, name) ==
  /\ CanServe
  /\ nkeys + 1 <= MaxKeys
  /\ Handled("create", <<parent, name>>,
             CreateEntry(Machine, ConvertInodeIndex(fs, parent), name))

\* Filesystem::open: the handle is the inode's block index
Open(inode) ==
  /\ CanServe
  /\ LET n == ConvertInodeIndex(fs, inode)
     IN Handled("open", <<inode>>,
                With([Machine EXCEPT !.fs.fds = FdInsert(@, n, NONE)], Ok(n)))

\* Filesystem::write
Write(inode, fh, data) ==
  /\ CanServe
  /\ nkeys + 1 <= MaxKeys
  /\ Handled("write", <<inode, fh, data>>,
             WriteData(Machine, ConvertInodeIndex(fs, inode), fh, data))

\* Filesystem::read
Read(inode, fh) ==
  /\ CanServe
  /\ Handled("read", <<inode, fh>>,
             ReadData(Machine, ConvertInodeIndex(fs, inode), fh))

\* the inode numbers the bridge sends: 1 (the root), and the block indexes
\* 0, 2 and 3 (the root inodes and the root directory of the first two
\* aspects to be mounted lie in blocks 0..3)
Inos == {0, 1, 2, 3}
\* file handles: 0 (what create replies) and a block index (what open replies)
Fhs == {0, 3}
NameA == <<97>>
NameHi == <<104, 105>>
Names == {NameA, NameHi}
Data(n) == [id |-> 1, lo |-> 0, len |-> n, dirty |-> FALSE]
Datas == {Data(0), Data(5), Data(BLOCK_SIZE)}

Next ==
  \/ \E a \in 1..MaxAspects, b \in BlockCounts : Mkfs(a, b, PW)
  \/ Inspect
  \/ \E c \in 0..MaxAspects, p \in Passwords : Mount(c, p)
  \/ Unmount
  \/ \E i \in Inos, n \in Names : Lookup(i, n)
  \/ \E i \in Inos, o \in {0, 1} : Readdir(i, o)
  \/ \E i \in Inos, op \in {"getattr", "setattr"} : Getattr(op, i)
  \/ \E i \in Inos, n \in Names : Create(i, n)
  \/ \E i \in Inos : Open(i)
  \/ \E i \in Inos, d \in Datas : Write(i, 0, d)
  \/ \E i \in Inos, f \in Fhs : Read(i, f)
  \/ Ack

Spec == Init /\ [][Next]_vars

(***************************************************************************)
(* Seal/open harness: Aspect::to_encrypted_aspect and                      *)
(* Aspect::from_encrypted_aspect applied to aspects drawn from bounded     *)
(* sets. Two aspects a and b with the same data key and the same number of *)
(* bits are sealed under the same password and then opened with q: the     *)
(* password, another one, or the empty one of a caller who has none.       *)
(***************************************************************************)
SealBits == (1..MaxSealBits) \cup {8, 9}
SealMaps(B) == {{}, {0}, {B - 1}, 0..(B - 1)}
SealAspects(B) ==
  {[key |-> Key(1), root_block |-> r, map |-> mp, bits |-> B] :
     r \in {NoBlock, 0}, mp \in SealMaps(B)}
OpenPasswords == Passwords \cup {<<>>}

SealInit ==
  /\ disk = NoDisk
  /\ nkeys = 1
  /\ fs = NoFs
  /\ resp = NoResp
  /\ made = NoneMade
  /\ \E B \in SealBits : \E a \in SealAspects(B), b \in SealAspects(B), p \in Passwords :
        h = [phase |-> "plain", a |-> a, b |-> b, p |-> p]

\* to_encrypted_aspect of both, each under a wrap key of its own
HSeal ==
  /\ h.phase = "plain"
  /\ h' = [phase |-> "sealed", a |-> h.a, b |-> h.b, p |-> h.p,
           ea |-> ToEncryptedAspect(h.a, h.p, nkeys + 1),
           eb |-> ToEncryptedAspect(h.b, h.p, nkeys + 2)]
  /\ nkeys' = nkeys + 2
  /\ UNCHANGED <<disk, fs, resp, made>>

\* from_encrypted_aspect of both with the password q
HOpen(q) ==
  /\ h.phase = "sealed"
  /\ h' = [phase |-> "opened", a |-> h.a, b |-> h.b, p |-> h.p, q |-> q,
           ea |-> h.ea, eb |-> h.eb,
           oa |-> FromEncryptedAspect(h.ea, q),
           ob |-> FromEncryptedAspect(h.eb, q)]
  /\ UNCHANGED <<disk, nkeys, fs, resp, made>>

SealNext ==
  \/ HSeal
  \/ \E q \in OpenPasswords : HOpen(q)

SealSpec == SealInit /\ [][SealNext]_vars

(***************************************************************************)
(* Foreign volumes: inspect, mount and the requests of the bridge on a     *)
(* file that has the layout of a volume and another magic number in its    *)
(* superblock                                                              *)
(***************************************************************************)
ForeignMagics == {0, MAGIC - 1}

ForeignDisk(magic, aspects, blocks) ==
  [MkfsDisk(aspects, blocks, PW, 0) EXCEPT !.log[1].body.magic = magic]

ForeignInit ==
  /\ \E g \in ForeignMagics, a \in 1..MaxAspects, b \in BlockCounts :
        /\ disk = ForeignDisk(g, a, b)
        /\ nkeys = 2 * a
        /\ h = HMade(a, b)
  /\ fs = NoFs
  /\ resp = NoResp
  /\ made = NoneMade

ForeignNext ==
  \/ Inspect
  \/ \E c \in 0..MaxAspects, p \in Passwords : Mount(c, p)
  \/ Unmount
  \/ \E i \in Inos, op \in {"getattr", "setattr"} : Getattr(op, i)
  \/ \E i \in Inos : Open(i)
  \/ Ack

ForeignSpec == ForeignInit /\ [][ForeignNext]_vars

(***************************************************************************)
(* Block codec harness: to_encrypted_block and from_encrypted_block applied *)
(* to records drawn from a bounded set: a record x is encrypted under the  *)
(* key k for the block index n and decoded, as its own type and with the   *)
(* same key, for the block index n2.                                       *)
(***************************************************************************)
CodecRecords ==
  {[INodeNew(S_IFDIR, Uid, Gid) EXCEPT !.block_size = BLOCK_SIZE, !.data_block = 1],
   [INodeNew(S_IFREG, Uid, Gid) EXCEPT !.block_size = BLOCK_SIZE, !.data_block = NoBlock],
   DirDefault,
   [t |-> "dir", entries |-> MapInsert(<<>>, NameA, 2)],
   [t |-> "dir", entries |-> MapInsert(MapInsert(<<>>, NameA, 2), NameHi, 3)],
   [t |-> "block", next_block |-> NoBlock, data |-> Data(5)],
   [t |-> "block", next_block |-> 3, data |-> Data(RAW_BLK_SIZE)]}

CodecInit ==
  /\ disk = NoDisk
  /\ nkeys = 2
  /\ fs = NoFs
  /\ resp = NoResp
  /\ made = NoneMade
  /\ \E x \in CodecRecords, k \in 1..2, n \in 0..MaxBlockIndex :
        h = [phase |-> "record", x |-> x, k |-> k, n |-> n]

HEncryptBlock ==
  /\ h.phase = "record"
  /\ h' = [phase |-> "encrypted", x |-> h.x, k |-> h.k, n |-> h.n,
           eb |-> ToEncryptedBlock(h.x, Key(h.k), h.n)]
  /\ UNCHANGED <<disk, nkeys, fs, resp, made>>

HDecryptBlock(n2) ==
  /\ h.phase = "encrypted"
  /\ h' = [phase |-> "decoded", x |-> h.x, k |-> h.k, n |-> h.n, eb |-> h.eb, n2 |-> n2,
           out |-> FromEncryptedBlock(h.eb, {}, Key(h.k), n2, h.x.t)]
  /\ UNCHANGED <<disk, nkeys, fs, resp, made>>

CodecNext ==
  \/ HEncryptBlock
  \/ \E n2 \in 0..MaxBlockIndex : HDecryptBlock(n2)

CodecSpec == CodecInit /\ [][CodecNext]_vars

(***************************************************************************)
(* Cipher harness: encrypt applied to inputs of every length up to         *)
(* MaxPlainLen, and of 1020 bytes                                          *)
(***************************************************************************)
PlainLens == (0..MaxPlainLen) \cup {1020}

CipherInit ==
  /\ disk = NoDisk
  /\ nkeys = 1
  /\ fs = NoFs
  /\ resp = NoResp
  /\ made = NoneMade
  /\ \E n \in PlainLens : h = [phase |-> "plain", len |-> n]

HEncrypt ==
  /\ h.phase = "plain"
  /\ h' = [phase |-> "cipher", len |-> h.len, enc |-> EncryptLen(h.len)]
  /\ UNCHANGED <<disk, nkeys, fs, resp, made>>

CipherNext == HEncrypt

CipherSpec == CipherInit /\ [][CipherNext]_vars

(***************************************************************************)
(* Properties                                                              *)
(***************************************************************************)
\* the step answers a request `op`
Answers(op) == resp = NoResp /\ resp'.op = op

\* the machine after the step
MachineNext == [disk |-> disk', nkeys |-> nkeys', fs |-> fs']

\* the inodes of the files created in the root of the mounted aspect
MadeInodes == {x[2] : x \in made[fs.cur]}
MadeNames == {x[1] : x \in made[fs.cur]}

\* the chain of data blocks from b on holds the chunks of data from the
\* k-th on, and ends with 0xFFFFFFFF
RECURSIVE ChainHolds(_, _, _, _)
ChainHolds(m, b, data, k) ==
  IF k = NumChunks(data) THEN b = NoBlock
  ELSE /\ b # NoBlock
       /\ LET blk == GetFromBlock(m, "block", b)
          IN /\ blk.r = "ok"
             /\ blk.v.data = Chunk(data, k)
             /\ ChainHolds(m, blk.v.next_block, data, k + 1)

\* the number of free blocks of the mounted filesystem
FreeBlocks == fs.B - Cardinality(fs.block_map)

\* C1: a file can be created in the root of a mounted aspect that has a
\* free block, and a single write of non-empty data D to a created file on a
\* fresh handle (cursor NONE) allocates exactly ceil(|D|/992) blocks: the
\* inode's data_block is the first, each block's next_block is the block of
\* the following chunk, the last one's is 0xFFFFFFFF, and the payloads along
\* the chain are D.
C1_WriteChainsBlocks ==
  [][/\ (Answers("create") /\ resp'.args[1] = 1 /\ FreeBlocks >= 1)
          => resp'.result = "ok"
     /\ (/\ Answers("write")
         /\ resp'.args[1] \in MadeInodes
         /\ resp'.args[3].len > 0
         /\ (resp'.args[2] \in DOMAIN fs.fds => fs.fds[resp'.args[2]] = NONE)
         /\ FreeBlocks >= NumChunks(resp'.args[3]))
          => /\ resp'.result = "ok"
             /\ resp'.val = resp'.args[3].len
             /\ Cardinality(fs'.aspect.map \ fs.aspect.map) = NumChunks(resp'.args[3])
             /\ LET i == GetFromBlock(MachineNext, "inode", resp'.args[1])
                IN /\ i.r = "ok"
                   /\ i.v.data_block \in fs'.aspect.map \ fs.aspect.map
                   /\ ChainHolds(MachineNext, i.v.data_block, resp'.args[3], 0)
    ]_vars

\* the superblock fields of the volume
VolA == ReadSuperBlock(disk).v.aspects
VolB == ReadSuperBlock(disk).v.blocks

\* the extents the step writes
NewExtents ==
  {i \in 1..Len(disk'.log) : \A j \in 1..Len(disk.log) : disk.log[j] # disk'.log[i]}

\* the aspect a step works on: the one being mounted, or the mounted one
\* (none, -1, for a step on a volume that is not mounted)
StepAspect ==
  IF resp'.op = "mount" THEN resp'.args[1]
  ELSE IF fs.mounted THEN fs.cur
  ELSE -1

\* C2: while aspect i is mounted (or being mounted), re-sealing it writes
\* only bytes of its own slot [aspect_offset(B, i), aspect_offset(B, i + 1)),
\* and what any other aspect's slot opens to does not change, for every
\* block count B.
C2_ResealStaysInSlot ==
  [][(disk.exists /\ resp = NoResp /\ resp' # NoResp) =>
       /\ \A i \in NewExtents :
            disk'.log[i].kind = "easp" =>
              /\ GetAspectOffset(VolB, StepAspect) <= disk'.log[i].off
              /\ ExtEnd(disk'.log[i]) <= GetAspectOffset(VolB, StepAspect + 1)
       /\ \A j \in 0..(VolA - 1) :
            j # StepAspect =>
              DecryptAspect(disk', GetAspectOffset(VolB, j), PW)
                = DecryptAspect(disk, GetAspectOffset(VolB, j), PW)
    ]_vars

\* the block map of aspect j as the mounted filesystem has it: its own in
\* memory, the others' on the volume
MapOf(j) ==
  IF j = fs.cur THEN fs.aspect.map
  ELSE GetAspect(disk, fs.B, j, fs.pass).v.map

\* C3: whatever mounts, creates and writes came before, no block index is
\* set in the block maps of two aspects, and the global bitmap in memory is
\* the union of the aspects' block maps.
C3_OneOwnerPerBlock ==
  fs.mounted =>
    /\ fs.cur \in 0..(fs.A - 1)
    /\ \A j \in 0..(fs.A - 1) : j # fs.cur => GetAspect(disk, fs.B, j, fs.pass).r = "ok"
    /\ \A i \in 0..(fs.A - 1), j \in 0..(fs.A - 1) :
         i # j => MapOf(i) \cap MapOf(j) = {}
    /\ fs.block_map = UNION {MapOf(j) : j \in 0..(fs.A - 1)}

\* C3 witness: the second aspect is mounted on a volume whose first aspect
\* owns blocks, and has allocated a block since it was mounted
C3_Witness ==
  /\ fs.mounted
  /\ fs.A = 2
  /\ fs.cur = 1
  /\ MapOf(0) # {}
  /\ GetAspect(disk, fs.B, 1, fs.pass).r = "ok"
  /\ GetAspect(disk, fs.B, 1, fs.pass).v.map # {}
  /\ fs.aspect.map # GetAspect(disk, fs.B, 1, fs.pass).v.map

\* the names of a readdir reply
ReplyNames(val) == [k \in 1..Len(val) |-> val[k].name]

\* C4: a name created in the root of one aspect is not returned by readdir
\* or lookup on the root of another: readdir(1) on an aspect in whose
\* root nothing was created yields exactly ".", "..", whatever was created
\* in the other aspects; lookup on the root finds only names created in it.
C4_AspectsHideNames ==
  [][/\ (Answers("readdir") /\ resp'.args = <<1, 0>> /\ made[fs.cur] = {})
          => (resp'.result = "ok" /\ ReplyNames(resp'.val) = <<DotName, DotDotName>>)
     /\ (Answers("lookup") /\ resp'.args[1] = 1 /\ resp'.result = "ok")
          => resp'.args[2] \in MadeNames
    ]_vars

\* C5: right after mkfs(A, B, path, p) with A >= 2, every slot n < A read
\* at aspect_offset(B, n) opens with p to root_block 0xFFFFFFFF and an
\* all-zero block map.
C5_FreshSlotsOpen ==
  (resp.op = "mkfs" /\ resp.args[1] >= 2) =>
    \A n \in 0..(resp.args[1] - 1) :
      LET a == DecryptAspect(disk, GetAspectOffset(resp.args[2], n), resp.args[3])
      IN a.r = "ok" /\ a.v.root_block = NoBlock /\ a.v.map = {}

\* the slot of aspect n holds a sealed aspect whose IV is not that of pass
SealedOtherwise(n, pass) ==
  \E i \in 1..Len(disk.log) :
    /\ disk.log[i].kind = "easp"
    /\ disk.log[i].off = GetAspectOffset(VolB, n)
    /\ Intact(disk.log, i, disk.log[i].off, ExtEnd(disk.log[i]))
    /\ disk.log[i].body.iv # IVFromBytes(pass)

\* C6: a mount with a password other than the one the aspect was sealed
\* with fails with a decode error before the root bootstrap, an allocation
\* or a block store runs: it never modifies the volume.
C6_WrongPasswordFails ==
  [][(Answers("mount") /\ resp'.args[1] < VolA
        /\ SealedOtherwise(resp'.args[1], resp'.args[2]))
       => (resp'.result = "err" /\ resp'.err = "Serialization" /\ disk' = disk)
    ]_vars

\* what a caller without the password gets out of a sealed slot: it opens
\* the slot with the wrap key stored beside the ciphertext and no password
PasswordFreeView(opened) ==
  [root_block |-> opened.root_block, map |-> opened.map, bits |-> opened.bits]

\* C7: two sealed slots that differ only in the aspect's root_block and
\* block_map give the same password-free view.
C7_SlotHidesAllocation ==
  (h.phase = "opened" /\ h.q = <<>>) => PasswordFreeView(h.oa) = PasswordFreeView(h.ob)

\* C8: a create in the root that answered ok is durable across unmount and
\* mount of the same aspect: readdir(1) yields ".", ".." and then every
\* created name, lookup(1, name) returns the inode create returned, and
\* getattr of it reports a regular file of size 0.
C8_CreateIsDurable ==
  [][/\ (Answers("readdir") /\ resp'.args = <<1, 0>>)
          => /\ resp'.result = "ok"
             /\ ReplyNames(resp'.val) = <<DotName, DotDotName>> \o SortedNames(MadeNames)
     /\ (Answers("lookup") /\ resp'.args[1] = 1 /\ resp'.args[2] \in MadeNames)
          => /\ resp'.result = "ok"
             /\ <<resp'.args[2], resp'.val.ino>> \in made[fs.cur]
     /\ (Answers("getattr") /\ resp'.args[1] \in MadeInodes)
          => /\ resp'.result = "ok"
             /\ resp'.val.kind = "RegularFile"
             /\ resp'.val.size = 0
    ]_vars

\* the step stores a record satisfying P at block n
Stores(n, P(_)) ==
  \E i \in NewExtents :
    /\ disk'.log[i].kind = "eblk"
    /\ disk'.log[i].off = GetBlockOffset(VolA, VolB, n)
    /\ P(disk'.log[i].body.plain)

\* C9: a mount of an aspect whose root_block is 0xFFFFFFFF allocates exactly
\* two blocks, stores a root inode of mode S_IFDIR at the first and an empty
\* Dir at the second, sets root_block to the first and re-seals the aspect,
\* so that readdir(1) yields exactly ".", ".."; a mount of an aspect that
\* has a root allocates and writes nothing.
C9_RootBootstrap ==
  [][/\ (Answers("mount") /\ resp'.result = "ok") =>
          LET off == GetAspectOffset(VolB, resp'.args[1])
              before == DecryptAspect(disk, off, resp'.args[2]).v
              after == DecryptAspect(disk', off, resp'.args[2])
              fresh == fs'.aspect.map \ before.map
          IN IF before.root_block = NoBlock
               THEN /\ Cardinality(fresh) = 2
                    /\ fs'.aspect.root_block \in fresh
                    /\ \E d \in fresh \ {fs'.aspect.root_block} :
                         /\ Stores(fs'.aspect.root_block,
                                   LAMBDA r : r.t = "inode" /\ r.mode = S_IFDIR
                                              /\ r.data_block = d)
                         /\ Stores(d, LAMBDA r : r = DirDefault)
                    /\ after.r = "ok"
                    /\ after.v = fs'.aspect
               ELSE /\ disk' = disk
                    /\ fs'.aspect = before
     /\ (Answers("readdir") /\ resp'.args = <<1, 0>> /\ fs.reqs = 0 /\ made[fs.cur] = {})
          => /\ resp'.result = "ok"
             /\ Len(resp'.val) = 2
             /\ ReplyNames(resp'.val) = <<DotName, DotDotName>>
    ]_vars

\* C10: for every aspect with a block map of B bits (B a multiple of 8 or
\* not) and every password p, opening the sealed aspect with p yields the
\* aspect's data_key, root_block and block_map, the map with its B bits.
C10_SealOpenRoundTrip ==
  (h.phase = "opened" /\ h.q = h.p) =>
    /\ h.oa.key = h.a.key
    /\ h.oa.root_block = h.a.root_block
    /\ h.oa.map = h.a.map
    /\ h.oa.bits = h.a.bits

\* C11: a record encrypted for the block index n decodes, with the same key
\* and the same index, to the record itself; decoded with the same key and
\* another index it yields an error, whatever the record's type (Dir, INode
\* or Block).
C11_BlockIndexBinds ==
  (h.phase = "decoded") =>
    /\ (h.n2 = h.n) => h.out = Ok(h.x)
    /\ (h.n2 # h.n) => h.out.r = "err"

\* the magic number in the volume's superblock
VolMagic == ReadSuperBlock(disk).v.magic

\* C12: on a volume whose superblock magic is not 0x504E4F51, inspect and
\* mount both answer with an error, and nothing of the filesystem runs: the
\* volume is left as it is and no mount comes to serve requests.
C12_ForeignMagicRejected ==
  [][(disk.exists /\ ReadSuperBlock(disk).r = "ok" /\ VolMagic # MAGIC) =>
       /\ (Answers("inspect") \/ Answers("mount")) => resp'.result = "err"
       /\ disk' = disk
       /\ ~fs'.mounted
    ]_vars

\* C13: on a volume made by mkfs(A, B, path, p), inspect answers with the
\* superblock read back: magic 0x504E4F51, aspects A and blocks B, whatever
\* was mounted and written since.
C13_InspectReadsBack ==
  [][(Answers("inspect") /\ h.phase = "made") =>
       /\ resp'.result = "ok"
       /\ resp'.val.magic = MAGIC
       /\ resp'.val.aspects = h.aspects
       /\ resp'.val.blocks = h.blocks
    ]_vars

\* inspect has answered on a volume of two aspects that a mount has written to
C13_Witness ==
  /\ resp.op = "inspect"
  /\ resp.result = "ok"
  /\ h = HMade(2, 6)
  /\ resp.val.aspects = 2
  /\ resp.val.blocks = 6
  /\ \E i \in 1..Len(disk.log) : disk.log[i].kind = "eblk"

\* the requests of the bridge
BridgeOps == {"lookup", "readdir", "getattr", "setattr", "create", "read", "write"}

\* the errno of each kind of failure
ErrnoOf(kind) ==
  CASE kind = "NoEntry" -> ENOENT
    [] kind = "NoDirectory" -> ENOTDIR
    [] kind = "NoEnoughSpace" -> ENOSPC
    [] kind = "IO" -> EIO
    [] kind = "Serialization" -> EIO
    [] OTHER -> EIO

\* C14: every error that lookup, readdir, getattr, setattr, create, read or
\* write replies to the bridge is the errno of the failure's kind: ENOENT
\* for a missing entry, ENOTDIR for a parent that is no directory, ENOSPC
\* when no block is free, EIO for an I/O failure and for a record that
\* fails to decode or decrypt.
C14_FailuresAsErrno ==
  [][\A op \in BridgeOps :
       (Answers(op) /\ resp'.result = "err") => resp'.code = ErrnoOf(resp'.err)
    ]_vars

\* the step leaves the volume and the mount's memory as they are
NoStateChange ==
  /\ disk' = disk
  /\ fs'.mounted
  /\ fs'.aspect = fs.aspect
  /\ fs'.block_map = fs.block_map
  /\ fs'.fds = fs.fds

\* C15: lookup(parent, name) answers not-a-directory when parent is no
\* directory (a created file), no-entry when the parent directory (the root)
\* holds no such name, and otherwise the attributes of the child, with ino
\* the child's block index; it changes no state.
C15_LookupResolves ==
  [][Answers("lookup") =>
       LET parent == resp'.args[1]
           name == resp'.args[2]
       IN /\ (parent \in MadeInodes) =>
               (resp'.result = "err" /\ resp'.err = "NoDirectory")
          /\ (parent = 1 /\ name \notin MadeNames) =>
               (resp'.result = "err" /\ resp'.err = "NoEntry")
          /\ (parent = 1 /\ name \in MadeNames) =>
               /\ resp'.result = "ok"
               /\ \E c \in MadeInodes :
                    /\ <<name, c>> \in made[fs.cur]
                    /\ resp'.val.ino = c
                    /\ resp'.val.kind = "RegularFile"
          /\ NoStateChange
    ]_vars

\* the listing of the mounted aspect's root: ".", "..", then the names
\* created in it in lexicographic order
RootListing == <<DotName, DotDotName>> \o SortedNames(MadeNames)

\* C16: readdir(ino, offset = k) on the root emits exactly the entries at
\* the positions k+1, k+2, ... of the listing ".", "..", stored names in
\* lexicographic order, each with its 1-based position as cookie; no stored
\* name is left out.
C16_ReaddirFromOffset ==
  [][(Answers("readdir") /\ resp'.args[1] = 1) =>
       LET k == resp'.args[2]
       IN /\ resp'.result = "ok"
          /\ Len(resp'.val) = Max(0, Len(RootListing) - k)
          /\ \A j \in 1..Len(resp'.val) :
               /\ resp'.val[j].name = RootListing[j + k]
               /\ resp'.val[j].cookie = j + k
    ]_vars

\* C17: handles to the same inode are independent: every open yields a
\* handle of its own, apart from those already held, and an open, read or
\* write through one handle leaves the cursor of every other handle as it
\* is.
C17_HandlesIndependent ==
  [][/\ (Answers("open") /\ resp'.result = "ok") =>
          /\ resp'.val \notin DOMAIN fs.fds
          /\ \A x \in DOMAIN fs.fds : fs'.fds[x] = fs.fds[x]
     /\ ((Answers("read") \/ Answers("write")) /\ fs'.mounted) =>
          \A x \in (DOMAIN fs.fds) \ {resp'.args[2]} :
            x \in DOMAIN fs'.fds /\ fs'.fds[x] = fs.fds[x]
    ]_vars

EncryptedData(ea) == <<ea.key, ea.iv, ea.plain>>

\* C19: an aspect sealed twice with the same password gets a fresh wrap key
\* each time: the two sealed records differ in their wrap key and in their
\* ciphertext, and opened with the password both give the same aspect, with
\* the data key, the root block and the allocated blocks of the one sealed.
C19_SealIsFresh ==
  (h.phase \in {"sealed", "opened"} /\ h.a = h.b) =>
    /\ h.ea.key # h.eb.key
    /\ EncryptedData(h.ea) # EncryptedData(h.eb)
    /\ (h.phase = "opened" /\ h.q = h.p) =>
         /\ h.oa = h.ob
         /\ h.oa.key = h.a.key
         /\ h.oa.root_block = h.a.root_block
         /\ h.oa.map = h.a.map

\* one aspect with a root and allocated blocks, sealed twice and opened
\* with its password
C19_Witness ==
  /\ h.phase = "opened"
  /\ h.a = h.b
  /\ h.q = h.p
  /\ h.a.root_block = 0
  /\ h.a.map # {}
  /\ h.ea.key # h.eb.key
  /\ h.oa = h.ob

\* C20: on the volume that mkfs(A, B, path, p) makes, consecutive block
\* slots lie exactly BLOCK_SIZE bytes apart, slot 0 begins where the last
\* aspect slot ends, the file is as long as the offset of slot B, and every
\* slot n < B lies inside the file.
C20_SlotsAreBlockSized ==
  [][Answers("mkfs") =>
       LET A == resp'.args[1]
           B == resp'.args[2]
       IN /\ \A n \in 0..(B - 1) :
               /\ GetBlockOffset(A, B, n + 1) - GetBlockOffset(A, B, n) = BLOCK_SIZE
               /\ GetBlockOffset(A, B, n) + BLOCK_SIZE <= disk'.len
          /\ GetBlockOffset(A, B, 0) = GetAspectOffset(B, A)
          /\ disk'.len = GetBlockOffset(A, B, B)
    ]_vars

\* C21: for every block count B the encoded EncryptedAspect takes exactly
\* EncryptedAspect::size_of(B) bytes, so that on the volume mkfs makes the
\* first aspect begins right after the superblock and aspect n, as mkfs
\* wrote it, fills the slot from aspect_offset(B, n) to
\* aspect_offset(B, n + 1).
C21_SlotSizeIsEncodedSize ==
  [][Answers("mkfs") =>
       LET A == resp'.args[1]
           B == resp'.args[2]
       IN /\ EncryptedAspectEncLen(B) = EncryptedAspectSizeOf(B)
          /\ GetAspectOffset(B, 0) = SuperBlockSize
          /\ \A n \in 0..(A - 1) :
               /\ GetAspectOffset(B, n + 1) - GetAspectOffset(B, n) = EncryptedAspectEncLen(B)
               /\ \E i \in 1..Len(disk'.log) :
                    /\ disk'.log[i].kind = "easp"
                    /\ disk'.log[i].off = GetAspectOffset(B, n)
                    /\ ExtEnd(disk'.log[i]) = GetAspectOffset(B, n + 1)
    ]_vars

\* the extents that hold a record the mounted aspect stored at block m
StoredAt(m) ==
  {i \in 1..Len(disk.log) :
     /\ disk.log[i].kind = "eblk"
     /\ disk.log[i].off = GetBlockOffset(fs.A, fs.B, m)
     /\ disk.log[i].body.key = fs.aspect.key}

\* the latest of them
LastStoredAt(m) == CHOOSE i \in StoredAt(m) : \A j \in StoredAt(m) : j <= i

\* C22: a store at block n writes only inside the slot of n, at most
\* BLOCK_SIZE bytes from block_offset(n) on, and no store at another block
\* reaches the record of block m: every allocated block of the mounted
\* aspect that was stored to loads as the record last stored at it.
C22_StoreStaysInSlot ==
  fs.mounted =>
    \A m \in fs.aspect.map :
      (StoredAt(m) # {}) =>
        LET e == disk.log[LastStoredAt(m)]
            g == GetFromBlock(Machine, e.body.plain.t, m)
        IN /\ e.full <= BLOCK_SIZE
           /\ g.r = "ok"
           /\ g.v = e.body.plain

\* the global bitmap and the aspect's block map a step starts from: those
\* of the mount, or for a mount those it reads from the volume
GlobalBefore ==
  IF fs.mounted THEN fs.block_map
  ELSE ConstructBlockMap(disk, VolA, VolB, resp'.args[2], 0, {}).v
AspectBefore ==
  IF fs.mounted THEN fs.aspect.map
  ELSE DecryptAspect(disk, GetAspectOffset(VolB, resp'.args[1]), resp'.args[2]).v.map

\* the bits a step sets in the global bitmap
Allocated == fs'.block_map \ GlobalBefore

\* C23: the allocations of a step (a mount, or a request after which the
\* mount lives on) take the lowest clear bits of the global bitmap, bits
\* that no aspect owns, and set them in the global bitmap and in the
\* current aspect's block map, changing no other bit of either; a request
\* answered no-space found no clear bit, and is answered ENOSPC; a create
\* so answered, whose one allocation it was, leaves both bitmaps as they
\* were.
C23_AllocateLowestFree ==
  [][(resp = NoResp /\ resp' # NoResp /\ fs'.mounted) =>
       /\ GlobalBefore \subseteq fs'.block_map
       /\ AspectBefore \subseteq fs'.aspect.map
       /\ fs'.aspect.map \ AspectBefore = Allocated
       /\ \A i \in Allocated :
            /\ i \in 0..(fs'.B - 1)
            /\ \A j \in 0..(i - 1) : j \in fs'.block_map
            /\ \A a \in 0..(fs'.A - 1) :
                 i \notin GetAspect(disk, fs'.B, a, fs'.pass).v.map
       /\ (resp'.result = "err" /\ resp'.err = "NoEnoughSpace") =>
            /\ FindFreeBlock(fs') = NoBlock
            /\ resp'.code = ENOSPC
            /\ (resp'.op = "create") =>
                 (fs'.block_map = fs.block_map /\ fs'.aspect.map = fs.aspect.map)
    ]_vars

\* a create has allocated the lowest free block, block 2 after the root's
\* blocks 0 and 1
C23_Witness ==
  /\ resp.op = "create"
  /\ fs.mounted
  /\ fs.aspect.map = {0, 1, 2}
  /\ fs.block_map = {0, 1, 2}

\* C24: from a successful mount on, the mounted aspect has a valid root:
\* its root_block is not 0xFFFFFFFF, the bit of root_block is set in its
\* block map, and no step of the mount changes root_block.
C24_RootStaysValid ==
  [][/\ fs'.mounted =>
          /\ fs'.aspect.root_block # NoBlock
          /\ fs'.aspect.root_block \in fs'.aspect.map
     /\ (fs.mounted /\ fs'.mounted) =>
          fs'.aspect.root_block = fs.aspect.root_block
    ]_vars

\* the second aspect, mounted with its root at block 2, has answered a
\* create
C24_Witness ==
  /\ fs.mounted
  /\ fs.cur = 1
  /\ fs.aspect.root_block = 2
  /\ resp.op = "create"

\* C25: every index set in the mounted aspect's block map is of a block at
\* which a record (an inode, a directory or a data block) was stored on
\* behalf of this aspect, encrypted under its data key: no bit is set for a
\* block that was never written.
C25_MapBitsAreStoredBlocks ==
  fs.mounted =>
    \A m \in fs.aspect.map :
      \E i \in StoredAt(m) : disk.log[i].body.plain.t \in {"inode", "dir", "block"}

\* C26: whenever a request of the bridge is answered, with success or with
\* an error, the mounted aspect's slot on the volume opens with the mount's
\* password to the root_block and the block map that the mount holds in
\* memory.
C26_AspectIsPersisted ==
  [][\A op \in BridgeOps \cup {"open"} :
       (Answers(op) /\ resp'.result \in {"ok", "err"}) =>
         LET a == DecryptAspect(disk', GetAspectOffset(fs'.B, fs'.cur), fs'.pass)
         IN /\ a.r = "ok"
            /\ a.v.root_block = fs'.aspect.root_block
            /\ a.v.map = fs'.aspect.map
    ]_vars

\* a file to work on comes to exist: a create in the root of a mount that
\* has a free block answers with a regular file of no data
FileCanBeMade ==
  (Answers("create") /\ resp'.args[1] = 1 /\ FreeBlocks >= 1) =>
    /\ resp'.result = "ok"
    /\ resp'.val.kind = "RegularFile"
    /\ resp'.val.size = 0

\* the cursor of handle f in the mount's table f, NONE when f is not in it
CursorOf(f, fh) == IF fh \in DOMAIN f.fds THEN f.fds[fh] ELSE NONE

\* C27: successive writes on one handle of a created file, with no read in
\* between, append. The first write (cursor NONE) hangs its chain on
\* inode.data_block; every later one (cursor at the previous terminal
\* block b) leaves inode.data_block and the payload of b as they are, sets
\* b's next_block to its own first block and leaves from there a
\* sentinel-terminated chain holding its data: so that after D1, ..., Dk
\* the chain from inode.data_block holds D1 ++ ... ++ Dk.
C27_WritesAppend ==
  [][/\ FileCanBeMade
     /\ (/\ Answers("write")
         /\ resp'.args[1] \in MadeInodes
         /\ resp'.args[3].len > 0
         /\ FreeBlocks >= NumChunks(resp'.args[3]))
          => LET ino == resp'.args[1]
                 b == CursorOf(fs, resp'.args[2])
                 fresh == fs'.aspect.map \ fs.aspect.map
                 before == GetFromBlock(Machine, "inode", ino)
                 after == GetFromBlock(MachineNext, "inode", ino)
             IN /\ resp'.result = "ok"
                /\ after.r = "ok"
                /\ IF b = NONE
                     THEN /\ after.v.data_block \in fresh
                          /\ ChainHolds(MachineNext, after.v.data_block, resp'.args[3], 0)
                     ELSE LET old == GetFromBlock(Machine, "block", b)
                              new == GetFromBlock(MachineNext, "block", b)
                          IN /\ after.v.data_block = before.v.data_block
                             /\ old.r = "ok" /\ new.r = "ok"
                             /\ old.v.next_block = NoBlock
                             /\ new.v.data = old.v.data
                             /\ new.v.next_block \in fresh
                             /\ ChainHolds(MachineNext, new.v.next_block, resp'.args[3], 0)
    ]_vars

\* C28: on an open handle of a created file, each read returns the payload
\* of the block the cursor stands at (the inode's data_block on a fresh
\* handle) and moves the cursor to that block's next_block, so that the
\* i-th read of a chain b1 -> ... -> bk returns the payload of bi; a read
\* with the cursor at the sentinel 0xFFFFFFFF returns empty and leaves the
\* cursor there.
C28_ReadWalksChain ==
  [][/\ FileCanBeMade
     /\ (/\ Answers("read")
         /\ resp'.args[1] \in MadeInodes
         /\ resp'.args[2] \in DOMAIN fs.fds)
          => LET fh == resp'.args[2]
                 inode == GetFromBlock(Machine, "inode", resp'.args[1])
                 b == IF fs.fds[fh] = NONE THEN inode.v.data_block ELSE fs.fds[fh]
                 blk == GetFromBlock(Machine, "block", b)
             IN /\ resp'.result = "ok"
                /\ fs'.mounted
                /\ IF fs.fds[fh] = NoBlock
                     THEN /\ resp'.val.len = 0
                          /\ fs'.fds[fh] = NoBlock
                     ELSE (fs.fds[fh] = NONE /\ b = NoBlock)
                          \/ /\ blk.r = "ok"
                             /\ resp'.val = blk.v.data
                             /\ fs'.fds[fh] = blk.v.next_block
    ]_vars

\* C29: a read on a fresh handle (cursor NONE) of a created file that has
\* no data (data_block 0xFFFFFFFF) returns empty and takes the handle to
\* the end-of-file state: its cursor is no longer NONE afterwards.
C29_EmptyFileReadsToEof ==
  [][/\ FileCanBeMade
     /\ (/\ Answers("read")
         /\ resp'.args[1] \in MadeInodes
         /\ resp'.args[2] \in DOMAIN fs.fds
         /\ fs.fds[resp'.args[2]] = NONE
         /\ GetFromBlock(Machine, "inode", resp'.args[1]).v.data_block = NoBlock)
          => /\ resp'.result = "ok"
             /\ resp'.val.len = 0
             /\ fs'.mounted
             /\ fs'.fds[resp'.args[2]] # NONE
    ]_vars

\* the block map that aspect j's slot on volume d opens to (no bit, when the
\* slot does not open)
OnDiskMap(d, j) ==
  LET a == DecryptAspect(d, GetAspectOffset(VolB, j), PW)
  IN IF a.r = "ok" THEN a.v.map ELSE {}

\* C30: blocks are never freed. No step of a mount clears a bit of the
\* global bitmap or of the aspect's block map in memory; no step clears a
\* bit of an aspect's block map on the volume; a mount starts with every
\* bit that is set on the volume; and when a mount ends, every bit of its
\* aspect's block map is on the volume for the next mount to find set.
C30_BitsAreNeverCleared ==
  [][/\ (fs.mounted /\ fs'.mounted) =>
          /\ fs.block_map \subseteq fs'.block_map
          /\ fs.aspect.map \subseteq fs'.aspect.map
     /\ disk.exists =>
          \A j \in 0..(VolA - 1) : OnDiskMap(disk, j) \subseteq OnDiskMap(disk', j)
     /\ (~fs.mounted /\ fs'.mounted) =>
          /\ \A j \in 0..(VolA - 1) : OnDiskMap(disk, j) \subseteq fs'.block_map
          /\ OnDiskMap(disk, fs'.cur) \subseteq fs'.aspect.map
     /\ (fs.mounted /\ ~fs'.mounted) =>
          fs.aspect.map \subseteq OnDiskMap(disk', fs.cur)
    ]_vars

\* C31: a create that is answered with an error, whatever the reason,
\* leaves the global bitmap, the mounted aspect's block map and the volume
\* as they were before the call.
C31_FailedCreateChangesNothing ==
  [][(Answers("create") /\ resp'.result = "err") =>
       /\ fs'.block_map = fs.block_map
       /\ fs'.aspect.map = fs.aspect.map
       /\ disk' = disk
    ]_vars

\* the chain of data blocks from b on decodes block by block and reaches
\* 0xFFFFFFFF within k blocks
RECURSIVE ChainEnds(_, _, _)
ChainEnds(m, b, k) ==
  \/ b = NoBlock
  \/ /\ k > 0
     /\ LET blk == GetFromBlock(m, "block", b)
        IN blk.r = "ok" /\ ChainEnds(m, blk.v.next_block, k - 1)

\* C32: a write to a created file that is answered with an error leaves the
\* file's readable content as it was: the inode (its data_block with it),
\* every block that decoded before the call and the handle's cursor are
\* unchanged, and the chain from inode.data_block still decodes and ends
\* at 0xFFFFFFFF.
C32_FailedWriteKeepsContent ==
  [][/\ FileCanBeMade
     /\ (/\ Answers("write")
         /\ resp'.args[1] \in MadeInodes
         /\ resp'.result = "err")
          => LET ino == resp'.args[1]
                 before == GetFromBlock(Machine, "inode", ino)
                 after == GetFromBlock(MachineNext, "inode", ino)
             IN /\ fs'.mounted
                /\ after = before
                /\ after.r = "ok"
                /\ CursorOf(fs', resp'.args[2]) = CursorOf(fs, resp'.args[2])
                /\ \A b \in 0..(fs.B - 1) :
                     GetFromBlock(Machine, "block", b).r = "ok" =>
                       GetFromBlock(MachineNext, "block", b)
                         = GetFromBlock(Machine, "block", b)
                /\ ChainEnds(MachineNext, after.v.data_block, fs.B)
    ]_vars

\* the last block of the chain that starts at b (b itself when the chain
\* cannot be followed further)
RECURSIVE ChainLast(_, _, _)
ChainLast(m, b, k) ==
  LET blk == GetFromBlock(m, "block", b)
  IN IF k = 0 \/ blk.r # "ok" \/ blk.v.next_block = NoBlock THEN b
     ELSE ChainLast(m, blk.v.next_block, k - 1)

\* C33: after every write to a created file that is answered ok, a write
\* of no bytes included, the chain from inode.data_block is not empty,
\* every block on it decodes under the aspect's key, it ends with
\* next_block = 0xFFFFFFFF, and the handle's cursor is the index of its
\* last block.
C33_WrittenChainIsWhole ==
  [][/\ FileCanBeMade
     /\ (/\ Answers("write")
         /\ resp'.args[1] \in MadeInodes
         /\ FreeBlocks >= Max(1, NumChunks(resp'.args[3])))
          => LET after == GetFromBlock(MachineNext, "inode", resp'.args[1])
             IN /\ resp'.result = "ok"
                /\ after.r = "ok"
                /\ after.v.data_block # NoBlock
                /\ ChainEnds(MachineNext, after.v.data_block, fs.B)
                /\ CursorOf(fs', resp'.args[2])
                     = ChainLast(MachineNext, after.v.data_block, fs.B)
    ]_vars

\* C34: a write to a created file succeeds whatever the handle's cursor
\* is, when there is a free block for each chunk: it is answered with the
\* number of bytes written, and with the cursor at 0xFFFFFFFF (reads have
\* reached the end of the file) the written data is afterwards found on
\* the chain from inode.data_block.
C34_WriteAfterEof ==
  [][/\ FileCanBeMade
     /\ (/\ Answers("write")
         /\ resp'.args[1] \in MadeInodes
         /\ resp'.args[3].len > 0
         /\ FreeBlocks >= NumChunks(resp'.args[3]))
          => LET after == GetFromBlock(MachineNext, "inode", resp'.args[1])
                 onChain(b) == ChainHolds(MachineNext, b, resp'.args[3], 0)
             IN /\ resp'.result = "ok"
                /\ resp'.val = resp'.args[3].len
                /\ CursorOf(fs, resp'.args[2]) = NoBlock =>
                     /\ after.r = "ok"
                     /\ \/ onChain(after.v.data_block)
                        \/ \E b \in fs.aspect.map :
                             /\ GetFromBlock(MachineNext, "block", b).r = "ok"
                             /\ onChain(GetFromBlock(MachineNext, "block", b).v.next_block)
                             /\ ChainLast(MachineNext, after.v.data_block, fs.B)
                                  = ChainLast(MachineNext, b, fs.B)
    ]_vars

\* the blocks of the chain that starts at b
RECURSIVE ChainBlocks(_, _, _)
ChainBlocks(m, b, k) ==
  LET blk == GetFromBlock(m, "block", b)
  IN IF k = 0 \/ b = NoBlock \/ blk.r # "ok" THEN {}
     ELSE {b} \cup ChainBlocks(m, blk.v.next_block, k - 1)

\* C35: data written to a created file stays reachable when the file is
\* opened again and written to again: an open changes no stored record,
\* and after a write that is answered ok every block that was on the chain
\* from inode.data_block before the write is still on it, with the payload
\* it had.
C35_ReopenKeepsData ==
  [][/\ FileCanBeMade
     /\ (Answers("open") /\ resp'.args[1] \in MadeInodes) =>
          /\ resp'.result = "ok"
          /\ disk' = disk
     /\ (/\ Answers("write")
         /\ resp'.args[1] \in MadeInodes
         /\ resp'.result = "ok")
          => LET before == GetFromBlock(Machine, "inode", resp'.args[1])
                 after == GetFromBlock(MachineNext, "inode", resp'.args[1])
             IN /\ before.r = "ok" /\ after.r = "ok"
                /\ \A b \in ChainBlocks(Machine, before.v.data_block, fs.B) :
                     /\ b \in ChainBlocks(MachineNext, after.v.data_block, fs.B)
                     /\ GetFromBlock(MachineNext, "block", b).v.data
                          = GetFromBlock(Machine, "block", b).v.data
    ]_vars

\* C36: a write changes no field of a created file's inode but data_block:
\* the inode after a write that is answered ok is the inode before it with
\* another data_block, so that mode, size, block_size, uid and gid stay as
\* create set them, and getattr on a created file reports size 0 however
\* much was written.
C36_WriteTouchesDataBlockOnly ==
  [][/\ FileCanBeMade
     /\ (/\ Answers("write")
         /\ resp'.args[1] \in MadeInodes
         /\ resp'.result = "ok")
          => LET before == GetFromBlock(Machine, "inode", resp'.args[1])
                 after == GetFromBlock(MachineNext, "inode", resp'.args[1])
             IN /\ before.r = "ok" /\ after.r = "ok"
                /\ after.v = [before.v EXCEPT !.data_block = after.v.data_block]
                /\ after.v.size = 0
     /\ (/\ Answers("getattr")
         /\ resp'.args[1] \in MadeInodes)
          => /\ resp'.result = "ok"
             /\ resp'.val.size = 0
    ]_vars

\* C37: bridge inode number 1 is unambiguous. In every state of a mount
\* block 1 is taken in the global bitmap (the first root bootstrap on the
\* volume took it), so no create is given block 1 for its inode: no create
\* allocates it or answers with it, no record of a regular file's inode is
\* stored in the slot of block 1, and the translation of bridge inode 1 to
\* the aspect's root_block never stands for a created file.
C37_InodeOneIsTheRoot ==
  [][/\ fs.mounted =>
          /\ 1 \in fs.block_map
          /\ 1 \notin MadeInodes
          /\ ConvertInodeIndex(fs, 1) = fs.aspect.root_block
          /\ ConvertInodeIndex(fs, 1) \notin MadeInodes
     /\ (Answers("create") /\ fs'.mounted) =>
          /\ 1 \notin Allocated
          /\ resp'.result = "ok" => resp'.val.ino # 1
     /\ fs'.mounted =>
          \A i \in 1..Len(disk'.log) :
            (/\ disk'.log[i].kind = "eblk"
             /\ disk'.log[i].off = GetBlockOffset(fs'.A, fs'.B, 1)
             /\ disk'.log[i].body.plain.t = "inode")
              => IsDir(disk'.log[i].body.plain)
    ]_vars

\* on the second aspect, whose root is block 2 after the first aspect's
\* blocks 0 and 1, a create has been given block 4 for its inode
C37_Witness ==
  /\ resp.op = "create"
  /\ fs.mounted
  /\ fs.aspect.root_block = 2
  /\ ConvertInodeIndex(fs, 1) = 2
  /\ 1 \in fs.block_map
  /\ 1 \notin fs.aspect.map
  /\ 4 \in fs.aspect.map

====
